---- MODULE Spec2Model ----
(***************************************************************************)
(* Model of src/app.py: the /export endpoint of the export service.        *)
(*                                                                         *)
(* Text values that the program splits, trims or lower-cases (the request  *)
(* query parameters) are sequences of one-character strings.  Query text   *)
(* is a sequence of text fragments: the program only ever concatenates    *)
(* query text, and the database reads it fragment by fragment.            *)
(***************************************************************************)
EXTENDS Integers, Sequences, FiniteSets, TLC

VARIABLES
    q,          \* dict(request.query_params): a function from the keys sent to their raw text
    hdr,        \* request.headers: a function from the header names sent to their text
    cfg,        \* the module-level configuration read from the environment
    db,         \* the tables of the database the service reads
    pc,         \* position of the invocation inside export()
    sql,        \* export()'s local sql
    params,     \* export()'s local params
    out_format, \* export()'s local out_format
    conn,       \* the connection of this invocation: "none", "open" or "closed"
    df,         \* the rows pandas read, in order
    nexec,      \* how many times the query was sent to the database
    cause,      \* the message of the database error raised inside the try block, if any
    rendered,   \* which renderings of rows were produced
    response    \* the value export() returned

vars == <<q, hdr, cfg, db, pc, sql, params, out_format, conn, df, nexec,
          cause, rendered, response>>

-----------------------------------------------------------------------------
(* Text helpers: str.split(","), str.strip(), str.lower(), str.join.       *)

\* the characters str.strip() removes
Whitespace == {" ", "\t", "\n", "\r"}

RECURSIVE SplitFrom(_, _, _)
\* str.split(","): the segments of s between commas; "" splits into [""].
SplitFrom(s, i, cur) ==
    IF i > Len(s) THEN <<cur>>
    ELSE IF s[i] = "," THEN <<cur>> \o SplitFrom(s, i + 1, <<>>)
    ELSE SplitFrom(s, i + 1, Append(cur, s[i]))

Split(s) == SplitFrom(s, 1, <<>>)

RECURSIVE LStrip(_)
LStrip(s) ==
    IF s # <<>> /\ Head(s) \in Whitespace THEN LStrip(Tail(s)) ELSE s

RECURSIVE RStrip(_)
RStrip(s) ==
    IF s # <<>> /\ s[Len(s)] \in Whitespace
    THEN RStrip(SubSeq(s, 1, Len(s) - 1))
    ELSE s

\* str.strip()
Strip(s) == RStrip(LStrip(s))

UpperLetters ==
    << "A", "B", "C", "D", "E", "F", "G", "H", "I", "J", "K", "L", "M",
       "N", "O", "P", "Q", "R", "S", "T", "U", "V", "W", "X", "Y", "Z" >>
LowerLetters ==
    << "a", "b", "c", "d", "e", "f", "g", "h", "i", "j", "k", "l", "m",
       "n", "o", "p", "q", "r", "s", "t", "u", "v", "w", "x", "y", "z" >>

LowerChar(c) ==
    IF \E i \in 1..26 : UpperLetters[i] = c
    THEN LowerLetters[CHOOSE i \in 1..26 : UpperLetters[i] = c]
    ELSE c

\* str.lower()
Lower(s) == [i \in 1..Len(s) |-> LowerChar(s[i])]

RECURSIVE Join(_, _)
\* sep.join(parts) on text fragments: parts is a sequence of fragment sequences
Join(sep, parts) ==
    IF parts = <<>> THEN <<>>
    ELSE IF Len(parts) = 1 THEN parts[1]
    ELSE parts[1] \o <<sep>> \o Join(sep, Tail(parts))

\* ", ".join(["%s"] * n)
Placeholders(n) == Join(", ", [i \in 1..n |-> <<"%s">>])

IsNonEmpty(s) == s # <<>>

RECURSIVE Str(_)
\* a sequence of characters as one text fragment
Str(cs) == IF cs = <<>> THEN "" ELSE Head(cs) \o Str(Tail(cs))

IsNotBlank(s) == Strip(s) # <<>>

\* a slip: [v for v in raw.split(",") if v.strip()], the kept values not trimmed
StripValuesUntrimmed(raw) == SelectSeq(Split(raw), IsNotBlank)

\* [v.strip() for v in raw.split(",") if v.strip()]
StripValues(raw) ==
    SelectSeq([i \in 1..Len(Split(raw)) |-> Strip(Split(raw)[i])], IsNonEmpty)

-----------------------------------------------------------------------------
(* build_query_and_params                                                  *)

\* the f-string of lines 62-112; it interpolates nothing
base_query ==
    << "SELECT d.district_name, b.block, c.cluster, s.udise_id, s.school_name, sm.school_management, CASE s.school_assam_category_id ..., st.*, sf.* FROM core_db.tbl_rp_school_registration_2025_2026 s LEFT JOIN ... st ... LEFT JOIN ... sf ...",
       " WHERE s.report_date = CURDATE()" >>

order_by == " ORDER BY s.district_id, s.block_id, s.cluster_id, s.udise_id"

StrParam(v) == [tag |-> "str", val |-> v]
IntParam(n) == [tag |-> "int", val |-> n]

\* a slip: the guard "if values:" of line 120 left out
add_in_clause_unguarded(field, param_name, query_params, b) ==
    IF param_name \in DOMAIN query_params /\ query_params[param_name] # <<>>
    THEN LET values == StripValues(query_params[param_name])
         IN  [filters |-> Append(b.filters,
                             <<field, " IN (">> \o Placeholders(Len(values)) \o <<")">>),
              params  |-> b.params \o [i \in 1..Len(values) |-> StrParam(values[i])]]
    ELSE b

\* a slip: the values written into the query text instead of bound
add_in_clause_interpolated(field, param_name, query_params, b) ==
    IF param_name \in DOMAIN query_params /\ query_params[param_name] # <<>>
    THEN LET values == StripValues(query_params[param_name])
         IN  IF values # <<>>
             THEN [filters |-> Append(b.filters,
                                 <<field, " IN (">>
                                 \o Join(", ", [i \in 1..Len(values) |-> <<Str(values[i])>>])
                                 \o <<")">>),
                   params  |-> b.params]
             ELSE b
    ELSE b

\* b is the pair of lists (filters, params) the closure appends to
add_in_clause(field, param_name, query_params, b) ==
    IF param_name \in DOMAIN query_params /\ query_params[param_name] # <<>>
    THEN LET values == StripValues(query_params[param_name])
         IN  IF values # <<>>
             THEN [filters |-> Append(b.filters,
                                 <<field, " IN (">> \o Placeholders(Len(values)) \o <<")">>),
                   params  |-> b.params \o [i \in 1..Len(values) |-> StrParam(values[i])]]
             ELSE b
    ELSE b

\* a slip: HSS given the code of HS
mappings_typo ==
    [t \in { <<"L","P">>, <<"U","P">>, <<"H","S">>, <<"H","S","S">> } |->
        CASE t = <<"L","P">> -> 1
          [] t = <<"U","P">> -> 2
          [] t = <<"H","S">> -> 3
          [] t = <<"H","S","S">> -> 3]

\* mappings = {"LP": 1, "UP": 2, "HS": 3, "HSS": 4}
mappings ==
    [t \in { <<"L","P">>, <<"U","P">>, <<"H","S">>, <<"H","S","S">> } |->
        CASE t = <<"L","P">> -> 1
          [] t = <<"U","P">> -> 2
          [] t = <<"H","S">> -> 3
          [] t = <<"H","S","S">> -> 4]

InMappings(t) == t \in DOMAIN mappings

\* lines 133-140
add_school_type(query_params, b) ==
    IF "school_type" \in DOMAIN query_params /\ query_params["school_type"] # <<>>
    THEN LET types == StripValues(query_params["school_type"])
             known == SelectSeq(types, InMappings)
             ids   == [i \in 1..Len(known) |-> mappings[known[i]]]
         IN  IF ids # <<>>
             THEN [filters |-> Append(b.filters,
                                 <<"s.school_assam_category_id", " IN (">>
                                 \o Placeholders(Len(ids)) \o <<")">>),
                   params  |-> b.params \o [i \in 1..Len(ids) |-> IntParam(ids[i])]]
             ELSE b
    ELSE b

build_query_and_params(query_params) ==
    LET b0 == [filters |-> <<>>, params |-> <<>>]
        b1 == add_in_clause("d.district_name", "district", query_params, b0)
        b2 == add_in_clause("b.block", "block", query_params, b1)
        b3 == add_in_clause("c.cluster", "cluster", query_params, b2)
        b4 == add_in_clause("sm.school_management", "school_management", query_params, b3)
        b5 == add_in_clause("g.geography", "geography", query_params, b4)
        b6 == add_school_type(query_params, b5)
        withFilters ==
            IF b6.filters # <<>>
            THEN base_query \o <<" AND ">> \o Join(" AND ", b6.filters)
            ELSE base_query
    IN  [sql |-> withFilters \o <<order_by>>, params |-> b6.params]

-----------------------------------------------------------------------------
(* The database: what the query of lines 63-111 returns.                   *)

Null == [null |-> TRUE, v |-> 0]
NullText == [null |-> TRUE, v |-> <<>>]
Val(x) == [null |-> FALSE, v |-> x]

\* ref_db.district, ref_db.blocks, ref_db.cluster, ref_db.school_management:
\* id -> label; an id with no row joins to NULL (LEFT JOIN)
district_name == (1 :> <<"a">>) @@ (2 :> <<"b">>)
block_name == (1 :> <<"a">>) @@ (2 :> <<"b">>)
cluster_name == (1 :> <<"a">>) @@ (2 :> <<"b">>)
management_name == (1 :> <<"a">>) @@ (2 :> <<"b">>)

Lookup(tbl, id) == IF id \in DOMAIN tbl THEN Val(tbl[id]) ELSE NullText

\* CASE s.school_assam_category_id WHEN 1 THEN 'LP' ... ELSE NULL END
school_category(id) ==
    CASE id = 1 -> Val(<<"L","P">>)
      [] id = 2 -> Val(<<"U","P">>)
      [] id = 3 -> Val(<<"H","S">>)
      [] id = 4 -> Val(<<"H","S","S">>)
      [] OTHER -> NullText

RECURSIVE SumNum(_)
\* SUM over a set of [row, x] pairs, x a nullable number: NULL when no x is non-null
SumNum(S) ==
    IF S = {} THEN Null
    ELSE LET e == CHOOSE e \in S : TRUE
             rest == SumNum(S \ {e})
         IN  IF e.x.null THEN rest
             ELSE IF rest.null THEN e.x
             ELSE Val(e.x.v + rest.v)

IfNull(x, d) == IF x.null THEN Val(d) ELSE x

\* the derived table st: one row per udise_id that has a row dated today
StudentAgg(database) ==
    LET today == {r \in database.students : r.report_date = "today"}
        ids == {r.udise_id : r \in today}
    IN  [u \in ids |->
            LET g == {r \in today : r.udise_id = u}
            IN  [total_students |->
                    IfNull(SumNum({[row |-> r.id, x |-> Val(r.registered_students)] : r \in g}), 0),
                 total_students_present |->
                    IfNull(SumNum({[row |-> r.id, x |-> Val(r.present)] : r \in g}), 0)]]

\* CASE WHEN cond THEN x END: NULL when cond is false
CaseWhen(cond, x) == IF cond THEN Val(x) ELSE Null

\* the derived table sf: one row per udise_id that has a row dated today
StaffAgg(database) ==
    LET today == {r \in database.staff : r.report_date = "today"}
        ids == {r.udise_id : r \in today}
    IN  [u \in ids |->
            LET g == {r \in today : r.udise_id = u}
            IN  [total_teaching_staff |->
                    IfNull(SumNum({[row |-> r.id, x |-> CaseWhen(r.staff_type_id = 1, r.total_staff)] : r \in g}), 0),
                 total_non_teaching_staff |->
                    IfNull(SumNum({[row |-> r.id, x |-> CaseWhen(r.staff_type_id # 1, r.total_staff)] : r \in g}), 0),
                 total_teaching_staff_present |->
                    IfNull(SumNum({[row |-> r.id, x |-> CaseWhen(r.staff_type_id = 1, r.present)] : r \in g}), 0),
                 total_non_teaching_staff_present |->
                    IfNull(SumNum({[row |-> r.id, x |-> CaseWhen(r.staff_type_id # 1, r.present)] : r \in g}), 0)]]

\* the SELECT list for one row s of the fact table: the outer query reads the
\* columns of st and sf as they are, NULL where the LEFT JOIN found no row
SelectRow(s, st, sf) ==
    [district |-> Lookup(district_name, s.district_id),
     block |-> Lookup(block_name, s.block_id),
     cluster |-> Lookup(cluster_name, s.cluster_id),
     udise_id |-> Val(s.udise_id),
     school_name |-> Val(s.school_name),
     school_management |-> Lookup(management_name, s.school_management_id),
     school_category |-> school_category(s.school_assam_category_id),
     total_students |->
        IF s.udise_id \in DOMAIN st THEN st[s.udise_id].total_students ELSE Null,
     total_students_present |->
        IF s.udise_id \in DOMAIN st THEN st[s.udise_id].total_students_present ELSE Null,
     total_teaching_staff |->
        IF s.udise_id \in DOMAIN sf THEN sf[s.udise_id].total_teaching_staff ELSE Null,
     total_non_teaching_staff |->
        IF s.udise_id \in DOMAIN sf THEN sf[s.udise_id].total_non_teaching_staff ELSE Null,
     total_teaching_staff_present |->
        IF s.udise_id \in DOMAIN sf THEN sf[s.udise_id].total_teaching_staff_present ELSE Null,
     total_non_teaching_staff_present |->
        IF s.udise_id \in DOMAIN sf THEN sf[s.udise_id].total_non_teaching_staff_present ELSE Null]

\* the columns a WHERE predicate of the query can name; g is no alias of the query
TextColumns == {"d.district_name", "b.block", "c.cluster", "sm.school_management"}
IntColumns == {"s.school_assam_category_id"}

Column(field, s) ==
    CASE field = "d.district_name" -> Lookup(district_name, s.district_id)
      [] field = "b.block" -> Lookup(block_name, s.block_id)
      [] field = "c.cluster" -> Lookup(cluster_name, s.cluster_id)
      [] field = "sm.school_management" -> Lookup(management_name, s.school_management_id)
      [] field = "s.school_assam_category_id" -> Val(s.school_assam_category_id)

RECURSIVE SplitAnd(_, _, _)
\* the fragments of the WHERE clause after the date restriction, cut at " AND "
SplitAnd(t, i, cur) ==
    IF i > Len(t) THEN <<cur>>
    ELSE IF t[i] = " AND " THEN <<cur>> \o SplitAnd(t, i + 1, <<>>)
    ELSE SplitAnd(t, i + 1, Append(cur, t[i]))

CountPlaceholders(t) == Cardinality({i \in 1..Len(t) : t[i] = "%s"})

\* the predicates appended to the query text: <<field, number of placeholders>> each,
\* or none when the text is not base_query [AND field IN (...)]* ORDER BY
ParsePredicates(text) ==
    LET n == Len(text)
        nb == Len(base_query)
        tail == SubSeq(text, nb + 1, n - 1)
        groups == IF tail = <<>> THEN <<>> ELSE Tail(SplitAnd(tail, 1, <<>>))
        wellFormed ==
            /\ n > nb
            /\ SubSeq(text, 1, nb) = base_query
            /\ text[n] = order_by
            /\ tail # <<>> => tail[1] = " AND "
            /\ \A i \in 1..Len(groups) :
                  /\ Len(groups[i]) >= 4
                  /\ groups[i] = <<groups[i][1], " IN (">>
                                 \o Placeholders(CountPlaceholders(groups[i])) \o <<")">>
    IN  IF wellFormed
        THEN [ok |-> TRUE,
              preds |-> [i \in 1..Len(groups) |->
                            [field |-> groups[i][1], n |-> CountPlaceholders(groups[i])]]]
        ELSE [ok |-> FALSE, preds |-> <<>>]

RECURSIVE Offset(_, _)
\* how many placeholders come before predicate i
Offset(preds, i) == IF i = 1 THEN 0 ELSE Offset(preds, i - 1) + preds[i - 1].n

\* field IN (%s, ...) with the placeholders bound, in order, to ps[off+1 .. off+n]
Satisfies(s, pred, ps, off) ==
    LET c == Column(pred.field, s)
    IN  /\ ~c.null
        /\ \E j \in (off + 1)..(off + pred.n) :
              /\ ps[j].tag = (IF pred.field \in IntColumns THEN "int" ELSE "str")
              /\ ps[j].val = c.v

SortKey(s) == <<s.district_id, s.block_id, s.cluster_id, s.udise_id>>

RECURSIVE LexLess(_, _)
LexLess(a, b) ==
    IF a = <<>> THEN FALSE
    ELSE IF Head(a) # Head(b) THEN Head(a) < Head(b)
    ELSE LexLess(Tail(a), Tail(b))

RECURSIVE SortRows(_)
\* ORDER BY s.district_id, s.block_id, s.cluster_id, s.udise_id
SortRows(S) ==
    IF S = {} THEN <<>>
    ELSE LET m == CHOOSE m \in S : \A o \in S \ {m} : LexLess(SortKey(m), SortKey(o))
         IN  <<m>> \o SortRows(S \ {m})

\* cursor.execute(sql, params) and fetchall: the rows, or the server's error
ExecuteQuery(text, ps, database) ==
    LET parsed == ParsePredicates(text)
        preds == parsed.preds
        total == IF Len(preds) = 0 THEN 0 ELSE Offset(preds, Len(preds)) + preds[Len(preds)].n
    IN  IF ~parsed.ok
        THEN [ok |-> FALSE, err |-> "You have an error in your SQL syntax", rows |-> <<>>]
        ELSE IF total # Len(ps)
        THEN [ok |-> FALSE, err |-> "Not all parameters were used in the SQL statement", rows |-> <<>>]
        ELSE IF \E i \in 1..Len(preds) : preds[i].field \notin TextColumns \cup IntColumns
        THEN [ok |-> FALSE, err |-> "Unknown column in 'where clause'", rows |-> <<>>]
        ELSE LET st == StudentAgg(database)
                 sf == StaffAgg(database)
                 hit == {s \in database.school :
                            /\ s.report_date = "today"
                            /\ \A i \in 1..Len(preds) :
                                  Satisfies(s, preds[i], ps, Offset(preds, i))}
                 sorted == SortRows(hit)
             IN  [ok |-> TRUE, err |-> "",
                  rows |-> [i \in 1..Len(sorted) |-> SelectRow(sorted[i], st, sf)]]

-----------------------------------------------------------------------------
(* Rendering: df.to_dict(orient="records") and df.to_csv(index=False).     *)

\* the columns of the SELECT list, in order
Columns ==
    << "district", "block", "cluster", "udise_id", "school_name", "school_management",
       "school_category", "total_students", "total_students_present",
       "total_teaching_staff", "total_non_teaching_staff",
       "total_teaching_staff_present", "total_non_teaching_staff_present" >>

TextFields == {"district", "block", "cluster", "school_name", "school_management",
               "school_category"}

\* a missing value is written as the empty field
CsvCell(col, x) ==
    IF x.null THEN "" ELSE IF col \in TextFields THEN Str(x.v) ELSE ToString(x.v)

\* header line, then one line per record, the fields in column order
to_csv(rows) ==
    <<Columns>> \o
    [i \in 1..Len(rows) |-> [j \in 1..Len(Columns) |-> CsvCell(Columns[j], rows[i][Columns[j]])]]

\* a missing value stays a missing value (NaN), a number a number, a text a text
JsonValue(col, x) ==
    IF x.null THEN [json |-> "NaN"]
    ELSE IF col \in TextFields THEN [json |-> "string", s |-> Str(x.v)]
    ELSE [json |-> "number", n |-> x.v]

to_dict(rows) ==
    [i \in 1..Len(rows) |->
        [c \in {Columns[j] : j \in 1..Len(Columns)} |-> JsonValue(c, rows[i][c])]]

-----------------------------------------------------------------------------
(* export()                                                                *)

NoResponse == [type |-> "none"]

\* q.get("apikey") or request.headers.get("x-api-key"): <<>> stands for None
RequestKey(query, headers) ==
    IF "apikey" \in DOMAIN query /\ query["apikey"] # <<>> THEN <<query["apikey"]>>
    ELSE IF "x-api-key" \in DOMAIN headers THEN <<headers["x-api-key"]>>
    ELSE <<>>

KeyRejected == cfg.API_KEY_REQUIRED /\ RequestKey(q, hdr) # <<cfg.API_KEY>>

\* q.get("format", "csv").lower()
OutFormat(query) ==
    Lower(IF "format" \in DOMAIN query THEN query["format"] ELSE <<"c","s","v">>)

\* a slip: if out_format != "csv"
IsNotCsv(fmt) == fmt # <<"c","s","v">>

\* if out_format == "json"
IsJson(fmt) == fmt = <<"j","s","o","n">>

\* a slip: the failure answered as an export of no rows
EmptyExportResponse(detail) == [type |-> "list", records |-> <<>>]

\* return {"error": "database error", "detail": str(e)}, 500
DatabaseErrorResponse(detail) ==
    [type |-> "tuple", body |-> [error |-> "database error", detail |-> detail], code |-> 500]

\* lines 159-162
AuthReject ==
    /\ pc = "start"
    /\ KeyRejected
    /\ response' = [type |-> "tuple", body |-> [error |-> "invalid API key"], code |-> 401]
    /\ pc' = "done"
    /\ UNCHANGED <<q, hdr, cfg, db, sql, params, out_format, conn, df, nexec, cause, rendered>>

\* lines 164-165
Build ==
    /\ pc = "start"
    /\ ~KeyRejected
    /\ sql' = build_query_and_params(q).sql
    /\ params' = build_query_and_params(q).params
    /\ out_format' = OutFormat(q)
    /\ pc' = "built"
    /\ UNCHANGED <<q, hdr, cfg, db, conn, df, nexec, cause, rendered, response>>

\* what mysql.connector.connect may raise
ConnectErrors == {"Can't connect to MySQL server"}

\* what the server may raise on a query it could otherwise run
TransientErrors == {"Lost connection to MySQL server during query"}

\* line 168, get_connection() returns
Connect ==
    /\ pc = "built"
    /\ conn' = "open"
    /\ pc' = "connected"
    /\ UNCHANGED <<q, hdr, cfg, db, sql, params, out_format, df, nexec, cause, rendered, response>>

\* line 168, get_connection() raises; lines 48-49 and 172-173
ConnectFail ==
    /\ pc = "built"
    /\ \E e \in ConnectErrors :
          /\ cause' = e
          /\ response' = DatabaseErrorResponse(<<"Failed to connect to database: ", e>>)
    /\ pc' = "done"
    /\ UNCHANGED <<q, hdr, cfg, db, sql, params, out_format, conn, df, nexec, rendered>>

\* line 170, pd.read_sql returns
ReadSql ==
    /\ pc = "connected"
    /\ ExecuteQuery(sql, params, db).ok
    /\ df' = ExecuteQuery(sql, params, db).rows
    /\ nexec' = nexec + 1
    /\ pc' = "read"
    /\ UNCHANGED <<q, hdr, cfg, db, sql, params, out_format, conn, cause, rendered, response>>

\* line 170, pd.read_sql raises; lines 172-173: conn.close() on line 171 is skipped
ReadSqlFail ==
    /\ pc = "connected"
    /\ \E e \in (IF ExecuteQuery(sql, params, db).ok THEN {}
                 ELSE {ExecuteQuery(sql, params, db).err}) \cup TransientErrors :
          /\ cause' = e
          /\ response' = DatabaseErrorResponse(<<"Execution failed on sql: ", e>>)
    /\ nexec' = nexec + 1
    /\ pc' = "done"
    /\ UNCHANGED <<q, hdr, cfg, db, sql, params, out_format, conn, df, rendered>>

\* line 171
Close ==
    /\ pc = "read"
    /\ conn' = "closed"
    /\ pc' = "closed"
    /\ UNCHANGED <<q, hdr, cfg, db, sql, params, out_format, df, nexec, cause, rendered, response>>

\* lines 175-176
RenderJson ==
    /\ pc = "closed"
    /\ IsJson(out_format)
    /\ response' = [type |-> "list", records |-> to_dict(df)]
    /\ rendered' = rendered \cup {"json"}
    /\ pc' = "done"
    /\ UNCHANGED <<q, hdr, cfg, db, sql, params, out_format, conn, df, nexec, cause>>

\* lines 178-184
RenderCsv ==
    /\ pc = "closed"
    /\ ~IsJson(out_format)
    /\ response' = [type |-> "StreamingResponse", media_type |-> "text/csv",
                    headers |-> "attachment; filename=export.csv",
                    content |-> to_csv(df)]
    /\ rendered' = rendered \cup {"csv"}
    /\ pc' = "done"
    /\ UNCHANGED <<q, hdr, cfg, db, sql, params, out_format, conn, df, nexec, cause>>

Next ==
    \/ AuthReject
    \/ Build
    \/ Connect
    \/ ConnectFail
    \/ ReadSql
    \/ ReadSqlFail
    \/ Close
    \/ RenderJson
    \/ RenderCsv

-----------------------------------------------------------------------------
(* The requests, configurations and databases the invocation starts from.  *)

\* the longest comma-separated list enumerated, in segments
MaxSegs == 3

FilterKeys == {"district", "block", "cluster", "school_management", "geography"}
AllKeys == FilterKeys \cup {"school_type"}

\* the segments a filter value is made of: a, " b ", the empty and the blank segment
FilterSegs == { <<"a">>, <<" ", "b", " ">>, <<>>, <<" ">> }

\* LP, " UP ", HSS, XX, lp and the empty segment
TypeSegs == { <<"L", "P">>, <<" ", "U", "P", " ">>, <<"H", "S", "S">>,
              <<"X", "X">>, <<"l", "p">>, <<>> }

RECURSIVE JoinComma(_)
JoinComma(segs) ==
    IF Len(segs) = 1 THEN segs[1]
    ELSE segs[1] \o <<",">> \o JoinComma(Tail(segs))

\* every text made of 1..MaxSegs segments of the pool, separated by commas
RawValues(pool) ==
    {JoinComma(ss) : ss \in UNION {[1..k -> pool] : k \in 1..MaxSegs}}

SegsOf(k) == IF k = "school_type" THEN TypeSegs ELSE FilterSegs

\* the other keys of a request whose key k is varied
ContextValue ==
    [district |-> <<"a">>,
     block |-> <<"b">>,
     cluster |-> <<"a", ",", " ", "b">>,
     school_management |-> <<"b", ",", "a">>,
     geography |-> <<"g">>,
     school_type |-> <<"U", "P", ",", "H", "S">>]

ContextKeys(c) ==
    CASE c = "none" -> {}
      [] c = "known" -> AllKeys \ {"geography"}
      [] c = "all" -> AllKeys

\* one key takes every enumerated value, the others are absent or fixed
VariedRequests ==
    UNION {{[x \in ContextKeys(c) \cup {k} |-> IF x = k THEN w ELSE ContextValue[x]] :
                w \in RawValues(SegsOf(k))} :
           k \in AllKeys, c \in {"none", "known", "all"}}

ShapeValues(k) ==
    IF k = "school_type"
    THEN { <<"L", "P">>, <<"U", "P", ",", "H", "S">> }
    ELSE { <<"x">>, <<"y", ",", "z">> }

\* every key is absent, or has one value, or two
ShapeRequests ==
    UNION {{f \in [K -> {<<"x">>, <<"y", ",", "z">>, <<"L", "P">>, <<"U", "P", ",", "H", "S">>}] :
                \A k \in K : f[k] \in ShapeValues(k)} :
           K \in SUBSET AllKeys}

\* the requests spec.md gives as examples
Kamrup_Nalbari == <<"K","a","m","r","u","p",","," ","N","a","l","b","a","r","i">>
ExampleRequests ==
    { [district |-> Kamrup_Nalbari, school_type |-> <<"H","S",",","H","S","S">>],
      [school_type |-> <<"L","P",",","U","P",",","X","X">>],
      [school_type |-> <<"Z","Z">>],
      [district |-> <<",", " ", ",">>, block |-> <<>>, geography |-> <<" ">>,
       school_type |-> <<",">>] }

Formats == { <<"c","s","v">>, <<"j","s","o","n">>, <<"J","S","O","N">>,
             <<"x","m","l">>, <<>> }

\* f with key k set to v
With(f, k, v) == [x \in DOMAIN f \cup {k} |-> IF x = k THEN v ELSE f[x]]

NoHeaders == [x \in {} |-> <<>>]
NoParams == [x \in {} |-> <<>>]

DefaultConfig == [API_KEY_REQUIRED |-> FALSE, API_KEY |-> <<"k">>]

SchoolA ==
    [udise_id |-> 101, school_name |-> <<"p">>, district_id |-> 1, block_id |-> 1,
     cluster_id |-> 1, school_management_id |-> 1, school_assam_category_id |-> 1,
     report_date |-> "today"]
SchoolB ==
    [udise_id |-> 102, school_name |-> <<"q">>, district_id |-> 2, block_id |-> 2,
     cluster_id |-> 2, school_management_id |-> 2, school_assam_category_id |-> 3,
     report_date |-> "today"]
\* a school of an unlisted cluster and category, sorted before SchoolB by block
SchoolC ==
    [udise_id |-> 100, school_name |-> <<"r">>, district_id |-> 2, block_id |-> 1,
     cluster_id |-> 3, school_management_id |-> 1, school_assam_category_id |-> 5,
     report_date |-> "today"]
\* a row of another day
SchoolOld ==
    [udise_id |-> 103, school_name |-> <<"s">>, district_id |-> 1, block_id |-> 1,
     cluster_id |-> 1, school_management_id |-> 1, school_assam_category_id |-> 2,
     report_date |-> "old"]

StudentPool ==
    { [id |-> 1, udise_id |-> 101, report_date |-> "today", registered_students |-> 30, present |-> 25],
      [id |-> 2, udise_id |-> 101, report_date |-> "today", registered_students |-> 10, present |-> 5],
      [id |-> 3, udise_id |-> 102, report_date |-> "old", registered_students |-> 20, present |-> 20] }

StaffPool ==
    { [id |-> 1, udise_id |-> 101, report_date |-> "today", staff_type_id |-> 1, total_staff |-> 5, present |-> 4],
      [id |-> 2, udise_id |-> 101, report_date |-> "today", staff_type_id |-> 2, total_staff |-> 2, present |-> 1],
      [id |-> 3, udise_id |-> 102, report_date |-> "today", staff_type_id |-> 2, total_staff |-> 3, present |-> 3] }

DefaultDb ==
    [school |-> {SchoolA, SchoolB, SchoolC, SchoolOld}, students |-> StudentPool,
     staff |-> StaffPool]

Databases ==
    [school : {S \cup {SchoolOld} : S \in SUBSET {SchoolA, SchoolB, SchoolC} \ {{}}},
     students : SUBSET StudentPool,
     staff : SUBSET StaffPool]

DbRequests ==
    { NoParams,
      [district |-> <<"a">>],
      [district |-> <<"b", ",", "a">>, school_type |-> <<"L", "P", ",", "H", "S">>] }

Locals ==
    /\ pc = "start"
    /\ sql = <<>>
    /\ params = <<>>
    /\ out_format = <<>>
    /\ conn = "none"
    /\ df = <<>>
    /\ nexec = 0
    /\ cause = ""
    /\ rendered = {}
    /\ response = NoResponse

\* requests that vary the filters
InitFilters ==
    /\ q \in VariedRequests \cup ShapeRequests \cup ExampleRequests
    /\ hdr = NoHeaders
    /\ cfg = DefaultConfig
    /\ db = DefaultDb

\* requests that vary the format and the API key
InitEnv ==
    /\ \E f \in {NoParams, [district |-> <<"a">>]},
          fmt \in {<<>>} \cup {<<x>> : x \in Formats},
          key \in {<<>>, <<<<"k">>>>, <<<<"x">>>>, <<<<>>>>} :
          q = LET g == IF fmt = <<>> THEN f ELSE With(f, "format", fmt[1])
              IN  IF key = <<>> THEN g ELSE With(g, "apikey", key[1])
    /\ hdr \in {NoHeaders, [x \in {"x-api-key"} |-> <<"k">>], [x \in {"x-api-key"} |-> <<"x">>]}
    /\ cfg \in [API_KEY_REQUIRED : BOOLEAN, API_KEY : {<<"k">>}]
    /\ db = DefaultDb

\* requests that vary the tables
InitDb ==
    /\ \E f \in DbRequests, json \in BOOLEAN :
          q = IF json THEN With(f, "format", <<"j","s","o","n">>) ELSE f
    /\ hdr = NoHeaders
    /\ cfg = DefaultConfig
    /\ db \in Databases

Init == Locals /\ (InitFilters \/ InitEnv \/ InitDb)

Spec == Init /\ [][Next]_vars

-----------------------------------------------------------------------------
(* What the claims speak of, stated without the program's own helpers.     *)

CommaAt(raw) == {i \in 1..Len(raw) : raw[i] = ","}

NumSegments(raw) == Cardinality(CommaAt(raw)) + 1

\* the k-th smallest element of a set of numbers
Nth(S, k) == CHOOSE p \in S : Cardinality({c \in S : c <= p}) = k

\* the k-th comma-separated segment of raw
Segment(raw, k) ==
    LET from == IF k = 1 THEN 1 ELSE Nth(CommaAt(raw), k - 1) + 1
        to == IF k = NumSegments(raw) THEN Len(raw) ELSE Nth(CommaAt(raw), k) - 1
    IN  SubSeq(raw, from, to)

IsBlank(s) == \A i \in 1..Len(s) : s[i] \in Whitespace

Trimmed(s) ==
    LET ix == {i \in 1..Len(s) : s[i] \notin Whitespace}
    IN  IF ix = {} THEN <<>>
        ELSE SubSeq(s, CHOOSE i \in ix : \A j \in ix : i <= j,
                       CHOOSE i \in ix : \A j \in ix : j <= i)

\* the trimmed non-blank segments of raw, in input order
Retained(raw) ==
    LET kept == {k \in 1..NumSegments(raw) : ~IsBlank(Segment(raw, k))}
    IN  [j \in 1..Cardinality(kept) |-> Trimmed(Segment(raw, Nth(kept, j)))]

RetainedOf(query, key) == IF key \in DOMAIN query THEN Retained(query[key]) ELSE <<>>

\* seq with every repeated element removed after its first occurrence
WithoutDuplicates(seq) ==
    LET first == {i \in 1..Len(seq) : \A j \in 1..(i - 1) : seq[j] # seq[i]}
    IN  [j \in 1..Cardinality(first) |-> seq[Nth(first, j)]]

TypeTokens == { <<"L","P">>, <<"U","P">>, <<"H","S">>, <<"H","S","S">> }

TypeCode(t) ==
    CASE t = <<"L","P">> -> 1 [] t = <<"U","P">> -> 2
      [] t = <<"H","S">> -> 3 [] t = <<"H","S","S">> -> 4

\* the codes of the school_type tokens that are in the table, in token order
CodesOf(query) ==
    LET toks == RetainedOf(query, "school_type")
        ok == {i \in 1..Len(toks) : toks[i] \in TypeTokens}
    IN  [j \in 1..Cardinality(ok) |-> TypeCode(toks[Nth(ok, j)])]

StrParams(vals) == [i \in 1..Len(vals) |-> [tag |-> "str", val |-> vals[i]]]
IntParams(codes) == [i \in 1..Len(codes) |-> [tag |-> "int", val |-> codes[i]]]

FieldOf(key) ==
    CASE key = "district" -> "d.district_name"
      [] key = "block" -> "b.block"
      [] key = "cluster" -> "c.cluster"
      [] key = "school_management" -> "sm.school_management"

\* the query has just been built: sql and params are assigned once, on line 164
Built == pc = "built"

\* the IN predicates of the built query text
Predicates == ParsePredicates(sql).preds

\* the parameters bound to the placeholders of predicate i of preds
BoundTo(preds, i) ==
    SubSeq(params, Offset(preds, i) + 1, Offset(preds, i) + preds[i].n)

\* among preds, the predicate on field has exactly the values vals, in order;
\* there is none if vals is empty
PredicateIs(preds, field, vals) ==
    LET on == {i \in 1..Len(preds) : preds[i].field = field}
    IN  IF vals = <<>> THEN on = {}
        ELSE /\ Cardinality(on) = 1
             /\ \A i \in on : preds[i].n = Len(vals) /\ BoundTo(preds, i) = vals

IsIntParam(p) == p.tag = "int"

Without(f, k) == [x \in DOMAIN f \ {k} |-> f[x]]

\* how many values each recognized key retains, and how many school_type tokens map
ShapeOf(query) ==
    [k \in AllKeys |->
        IF k = "school_type" THEN Len(CodesOf(query)) ELSE Len(RetainedOf(query, k))]

-----------------------------------------------------------------------------
(* The claims.                                                             *)

\* C1: the parameter list is the normalized values of district, block, cluster,
\* school_management and then the school_type codes, in this order, and the query
\* text has as many %s placeholders as there are parameters.
C1_ParamsAreTheFourFiltersThenTypes ==
    Built =>
        /\ params = StrParams(RetainedOf(q, "district"))
                    \o StrParams(RetainedOf(q, "block"))
                    \o StrParams(RetainedOf(q, "cluster"))
                    \o StrParams(RetainedOf(q, "school_management"))
                    \o IntParams(CodesOf(q))
        /\ CountPlaceholders(sql) = Len(params)

\* C2 as stated: for district, block, cluster and school_management, blank and
\* duplicate segments are removed and the remaining values keep their input order
\* in the IN predicate and in the parameter list.
C2_BlankAndDuplicateSegmentsRemoved ==
    Built =>
        LET preds == Predicates
        IN  \A key \in {"district", "block", "cluster", "school_management"} :
                PredicateIs(preds, FieldOf(key),
                            StrParams(WithoutDuplicates(RetainedOf(q, key))))

\* C2 as amended: blank segments are removed, duplicate values are kept, and the
\* trimmed values keep their input order in the IN predicate and in the parameter
\* list.
C2_BlankSegmentsRemovedOrderKept ==
    Built =>
        LET preds == Predicates
        IN  \A key \in {"district", "block", "cluster", "school_management"} :
                PredicateIs(preds, FieldOf(key), StrParams(RetainedOf(q, key)))

\* C2's case: a value with a blank segment and a repeated value has been built
C2_Witness ==
    /\ Built
    /\ \E key \in {"district", "block", "cluster", "school_management"} :
          /\ key \in DOMAIN q
          /\ \E k \in 1..NumSegments(q[key]) : IsBlank(Segment(q[key], k))
          /\ Len(RetainedOf(q, key)) = 2
          /\ WithoutDuplicates(RetainedOf(q, key)) # RetainedOf(q, key)

\* C3: school_type contributes exactly the codes of its trimmed tokens that are in
\* the table (case-sensitive), in token order; the predicate on
\* s.school_assam_category_id is there if and only if a code remains.
C3_SchoolTypeCodes ==
    Built =>
        /\ PredicateIs(Predicates, "s.school_assam_category_id", IntParams(CodesOf(q)))
        /\ SelectSeq(params, IsIntParam) = IntParams(CodesOf(q))
        /\ ("school_type" \in DOMAIN q
              /\ q["school_type"] = <<"L","P",",","U","P",",","X","X">>)
            => SelectSeq(params, IsIntParam) = IntParams(<<1, 2>>)
        /\ ("school_type" \in DOMAIN q /\ q["school_type"] = <<"Z","Z">>)
            => /\ \A i \in 1..Len(Predicates) :
                     Predicates[i].field # "s.school_assam_category_id"
               /\ params = <<>>

\* C3's case: tokens in the table, a token outside it and a lower-case token
C3_Witness ==
    /\ Built
    /\ "school_type" \in DOMAIN q
    /\ q["school_type"] = <<"l","p",",","H","S","S",","," ","U","P"," ">>
    /\ params = IntParams(<<4, 2>>)

\* C4: when every recognized key is absent or retains nothing, the parameter list is
\* empty and the query text is the base template followed directly by ORDER BY.
C4_NoFiltersNoPredicates ==
    (Built /\ \A k \in AllKeys : RetainedOf(q, k) = <<>>) =>
        /\ params = <<>>
        /\ sql = base_query \o <<order_by>>

\* C4's case: keys are sent, made only of commas and whitespace
C4_Witness ==
    /\ Built
    /\ \A k \in AllKeys : RetainedOf(q, k) = <<>>
    /\ \E k \in DOMAIN q : CommaAt(q[k]) # {} /\ ~IsBlank(q[k])
    /\ \E k \in DOMAIN q : q[k] = <<>>
    /\ sql = base_query \o <<order_by>>

\* C5: the geography key changes neither the query text nor the parameter list.
C5_GeographyIsNoOp ==
    Built =>
        /\ sql = build_query_and_params(Without(q, "geography")).sql
        /\ params = build_query_and_params(Without(q, "geography")).params

NoStudentRowToday(u) ==
    ~\E r \in db.students : r.udise_id = u /\ r.report_date = "today"

NoStaffRowToday(u) ==
    ~\E r \in db.staff : r.udise_id = u /\ r.report_date = "today"

\* C6: a school with no row in the student or the staff aggregation for the current
\* date has 0, never null, in the corresponding totals of its exported row.
C6_MissingAggregatesAreZero ==
    (pc \in {"read", "closed", "done"} /\ nexec = 1 /\ cause = "") =>
        \A i \in 1..Len(df) :
            /\ NoStudentRowToday(df[i].udise_id.v) =>
                  /\ df[i].total_students = Val(0)
                  /\ df[i].total_students_present = Val(0)
            /\ NoStaffRowToday(df[i].udise_id.v) =>
                  /\ df[i].total_teaching_staff = Val(0)
                  /\ df[i].total_non_teaching_staff = Val(0)
                  /\ df[i].total_teaching_staff_present = Val(0)
                  /\ df[i].total_non_teaching_staff_present = Val(0)

\* what build_query_and_params returns for each filter map of ShapeRequests
OtherBuilds ==
    {[request |-> f, shape |-> ShapeOf(f),
      sql |-> build_query_and_params(f).sql,
      params |-> build_query_and_params(f).params] : f \in ShapeRequests}

\* C7: two filter maps whose keys retain the same number of values per key (and map
\* the same number of school_type tokens) get identical query text, whatever the
\* values are.
C7_QueryTextDependsOnCountsOnly ==
    Built =>
        LET shape == ShapeOf(q)
        IN  \A other \in OtherBuilds : other.shape = shape => other.sql = sql

\* C7's case: another filter map with the same counts and other values
C7_Witness ==
    /\ Built
    /\ Len(params) > 2
    /\ \E other \in OtherBuilds :
          /\ other.shape = ShapeOf(q)
          /\ other.request # q
          /\ other.params # params
          /\ other.sql = sql

IsErrorOutcome(r) == r.type = "tuple"
IsExportOutcome(r) == r.type \in {"list", "StreamingResponse"}

\* C8: when connecting or executing fails, the invocation ends in one failure outcome,
\* distinguishable from every successful export and carrying the cause; no rendering
\* of rows is produced and the query is executed at most once.
C8_DatabaseFailureIsOneErrorOutcome ==
    /\ nexec <= 1
    /\ (pc = "done" /\ rendered # {}) => IsExportOutcome(response) /\ cause = ""
    /\ cause # "" =>
          /\ pc = "done"
          /\ IsErrorOutcome(response) /\ ~IsExportOutcome(response)
          /\ response.code = 500
          /\ response.body.error = "database error"
          /\ \E i \in 1..Len(response.body.detail) : response.body.detail[i] = cause
          /\ rendered = {}

\* C8's case: the query was executed and failed
C8_Witness ==
    /\ pc = "done"
    /\ nexec = 1
    /\ cause \in TransientErrors
    /\ IsErrorOutcome(response)

\* the export of rows as CSV
CsvExport(rows) ==
    [type |-> "StreamingResponse", media_type |-> "text/csv",
     headers |-> "attachment; filename=export.csv", content |-> to_csv(rows)]

Finished == pc = "done" /\ conn = "closed"

IsJsonInAnyCase(raw) ==
    /\ Len(raw) = 4
    /\ raw[1] \in {"j", "J"} /\ raw[2] \in {"s", "S"}
    /\ raw[3] \in {"o", "O"} /\ raw[4] \in {"n", "N"}

OnlyDatabaseOrKeyErrors ==
    (pc = "done" /\ IsErrorOutcome(response)) => (cause # "" \/ KeyRejected)

\* C9 as stated: every format value other than json (absent, csv, xml, ...) renders
\* exactly as csv does, and no format value produces an error outcome.
C9_EveryFormatButJsonIsCsv ==
    /\ (Finished /\ ("format" \notin DOMAIN q \/ q["format"] # <<"j","s","o","n">>))
          => response = CsvExport(df)
    /\ OnlyDatabaseOrKeyErrors

\* C9 as amended: every format value that is not json in some letter case renders
\* exactly as csv does, and no format value produces an error outcome.
C9_EveryFormatButJsonInAnyCaseIsCsv ==
    /\ (Finished /\ ("format" \notin DOMAIN q \/ ~IsJsonInAnyCase(q["format"])))
          => response = CsvExport(df) /\ rendered = {"csv"}
    /\ OnlyDatabaseOrKeyErrors

\* C9's case: an unsupported format was requested and rows were exported
C9_Witness ==
    /\ Finished
    /\ "format" \in DOMAIN q
    /\ q["format"] = <<"x","m","l">>
    /\ response = CsvExport(df)
    /\ Len(df) > 0

\* C10: no invocation returns with its connection still open.
C10_ConnectionClosedOnReturn == pc = "done" => conn # "open"

====
